---------------------------- MODULE Spec2Model ----------------------------
(***************************************************************************)
(* A model of split_ai_answer.py: the block parser parse_files (with its   *)
(* separator predicate is_separator) and the path-safe writer write_files  *)
(* (with validate_path).  Strings are sequences of one-character strings,  *)
(* so trimming, prefix tests, joining and path normalisation are computed  *)
(* character by character as the Python code computes them.  The platform  *)
(* is POSIX: os.sep is "/".                                                *)
(***************************************************************************)
EXTENDS Integers, Sequences, FiniteSets, TLC

VARIABLES
    \* ---- parse_files ----
    text,           \* the argument of parse_files, a sequence of characters
    lines,          \* text.splitlines(keepends=True)
    idx,            \* the scan cursor (0-based, as in the code)
    ppc,            \* position in parse_files
    path,           \* the current block's path
    start_line,     \* 1-based line number of the current block's FILE marker
    sep_line,       \* the trimmed opening separator of the current block
    content_lines,  \* the content lines collected so far
    result,         \* the local list of (path, content) tuples
    returned,       \* the value parse_files returned (NotReturned before / never)
    raised,         \* the ValueError parse_files raised (NoError if none)
    cur,            \* history: the 0-based indexes of the current block's lines
    spans,          \* history: per emitted block, the 0-based indexes of its lines
    first,          \* history: what the parse of the original input returned,
                    \* once its blocks were written out again and parsed anew
    \* ---- write_files ----
    blocks,         \* the argument blocks: a sequence of <<rel_path, content>>
    output_dir,     \* the argument output_dir
    dry_run,        \* the argument dry_run
    force,          \* the argument force
    dirs,           \* the filesystem: the directories (absolute normalised paths)
    files,          \* the filesystem: the regular files and their content
    stats,          \* the counters created, skipped, errors
    wi,             \* 1-based index of the block being processed
    wpc,            \* position in write_files
    response,       \* what input() gave for the current block
    report,         \* the value write_files returned (NoReport before)
    faults,         \* number of I/O failures the environment has injected
    prompts,        \* history: the indexes of the blocks input() was called for
    outcomes,       \* history: per processed block, how its iteration ended
    dirs0,          \* history: the directories before the run
    files0,         \* history: the files before the run
    \* ---- main ----
    mpc,            \* position in main
    status,         \* the exit status main returned (NoStatus before)
    why             \* history: the statement of main that returned

pvars == <<text, lines, idx, ppc, path, start_line, sep_line, content_lines,
           result, returned, raised, cur, spans, first>>

wvars == <<blocks, output_dir, dry_run, force, dirs, files, stats, wi, wpc,
           response, report, faults, prompts, outcomes, dirs0, files0>>

mvars == <<mpc, status, why>>

vars == <<pvars, wvars, mvars>>

\* a string variable that holds no string yet
NoValue == <<"<none>">>

-----------------------------------------------------------------------------
(* Bounds of the model. *)

\* longest input, in chunks, drawn from the full pool of chunks
MaxChunks == 3

\* longest input, in chunks, drawn from the core pool of chunks
MaxCoreChunks == 5

\* longest block list handed to write_files
MaxBlocks == 3

\* most I/O failures the environment injects into one run of write_files
MaxFaults == 1

\* longest candidate separator line
MaxRun == 11

-----------------------------------------------------------------------------
(* Strings. *)

\* c repeated k times
Rep(c, k) == [i \in 1..k |-> c]

\* characters str.strip() removes (those the model's alphabet contains)
Whitespace == {" ", "\t", "\n", "\r", "\f"}

\* line boundaries of str.splitlines (those the model's alphabet contains)
LineBreaks == {"\n", "\r", "\f"}

RECURSIVE LStrip(_)
\* str.lstrip()
LStrip(s) == IF s # <<>> /\ Head(s) \in Whitespace THEN LStrip(Tail(s)) ELSE s

RECURSIVE RStrip(_)
\* str.rstrip()
RStrip(s) ==
    IF s # <<>> /\ s[Len(s)] \in Whitespace
    THEN RStrip(SubSeq(s, 1, Len(s) - 1)) ELSE s

\* str.strip()
Strip(s) == RStrip(LStrip(s))

\* str.startswith(p)
StartsWith(s, p) == Len(s) >= Len(p) /\ SubSeq(s, 1, Len(p)) = p

\* needle in s
Contains(s, needle) ==
    \E i \in 1..(Len(s) - Len(needle) + 1) :
        SubSeq(s, i, i + Len(needle) - 1) = needle

RECURSIVE JoinAll(_)
\* "".join(seq_of_strings)
JoinAll(ss) == IF ss = <<>> THEN <<>> ELSE Head(ss) \o JoinAll(Tail(ss))

RECURSIVE SplitLines(_)
\* str.splitlines(keepends=True): "\r\n" is one boundary, and no empty last line
SplitLines(t) ==
    IF t = <<>> THEN <<>>
    ELSE LET brk == {i \in 1..Len(t) : t[i] \in LineBreaks}
         IN  IF brk = {} THEN <<t>>
             ELSE LET i == CHOOSE m \in brk : \A k \in brk : m <= k
                      e == IF t[i] = "\r" /\ i < Len(t) /\ t[i + 1] = "\n"
                           THEN i + 1 ELSE i
                  IN  <<SubSeq(t, 1, e)>> \o SplitLines(SubSeq(t, e + 1, Len(t)))

-----------------------------------------------------------------------------
(* is_separator *)

MinSeparatorLen == 10

\* a predicate that takes any mix of "=" and "-"
is_separator_mixed(line) ==
    /\ Len(line) >= MinSeparatorLen
    /\ \A i \in 1..Len(line) : line[i] \in {"=", "-"}

is_separator(line) ==
    IF Len(line) < MinSeparatorLen THEN FALSE
    ELSE IF Cardinality({line[i] : i \in 1..Len(line)}) # 1 THEN FALSE
    ELSE line[1] \in {"=", "-"}

-----------------------------------------------------------------------------
(* parse_files *)

\* a marker prefix without the space
FilePrefixNoSpace == <<"F", "I", "L", "E">>

\* line 35: the prefix of a block start
FilePrefix == <<"F", "I", "L", "E", " ">>

EndFile == <<"E", "N", "D", " ", "F", "I", "L", "E">>

\* lines[idx] of the code (0-based)
LineAt(i) == lines[i + 1]

ParseError(msg, p, ln) == [msg |-> msg, path |-> p, line |-> ln]

NoError == ParseError("none", <<>>, 0)

Returned(v) == [done |-> TRUE, value |-> v]

NotReturned == [done |-> FALSE, value |-> <<>>]

\* the input is the original one, not blocks written out again
NoFirst == [done |-> FALSE, value |-> <<>>, seps |-> <<>>]

\* line 35-37: the line is not a block start
ScanSkip ==
    /\ ppc = "scan"
    /\ UNCHANGED <<wvars, mvars>>
    /\ UNCHANGED cur
    /\ idx < Len(lines)
    /\ ~StartsWith(Strip(LineAt(idx)), FilePrefix)
    /\ idx' = idx + 1
    /\ UNCHANGED <<first, text, lines, ppc, path, start_line, sep_line, content_lines,
                   result, returned, raised, spans>>

\* a path taken from the marker line as it is
MarkerPathUntrimmed(line) == SubSeq(line, Len(FilePrefix) + 1, Len(line))

\* the path of a FILE marker line (line 39)
MarkerPath(line) == Strip(SubSeq(line, Len(FilePrefix) + 1, Len(line)))

\* line 39-41: a block start
ScanMarker ==
    /\ ppc = "scan"
    /\ UNCHANGED <<wvars, mvars>>
    /\ cur' = [marker |-> idx, opener |-> -1, closer |-> -1]
    /\ idx < Len(lines)
    /\ StartsWith(Strip(LineAt(idx)), FilePrefix)
    /\ path' = MarkerPath(Strip(LineAt(idx)))
    /\ start_line' = idx + 1
    /\ idx' = idx + 1
    /\ ppc' = "findsep"
    /\ UNCHANGED <<first, text, lines, sep_line, content_lines, result, returned,
                   raised, spans>>

\* a search that takes the path of a FILE line it meets
PathOfInnerMarker(line) ==
    IF StartsWith(Strip(line), FilePrefix) THEN MarkerPath(Strip(line)) ELSE path

\* line 44-45: the path after a line the search passes over: the loop only
\* moves the cursor, whatever the line is
PathAfterPassing(line) == path

\* line 44-45: not a separator yet
FindSepStep ==
    /\ ppc = "findsep"
    /\ UNCHANGED <<wvars, mvars>>
    /\ UNCHANGED cur
    /\ idx < Len(lines)
    /\ ~is_separator(Strip(LineAt(idx)))
    /\ idx' = idx + 1
    /\ path' = PathAfterPassing(LineAt(idx))
    /\ UNCHANGED <<first, text, lines, ppc, start_line, sep_line, content_lines,
                   result, returned, raised, spans>>

\* a report of the line where the scan stopped
ReportedLineAtCursor == idx + 1

\* the line number a failed search reports (lines 48 and 60)
ReportedLine == start_line

\* a failure that still hands back the blocks parsed so far
FailWithPartialList(err) ==
    /\ raised' = err
    /\ returned' = Returned(result)
    /\ ppc' = "raised"

\* what parse_files hands back when a block is malformed: it raises, and the
\* local list is lost (lines 47, 59, 66)
Fail(err) ==
    /\ raised' = err
    /\ returned' = NotReturned
    /\ ppc' = "raised"

\* line 46-49: end of input before an opening separator
FindSepFail ==
    /\ ppc = "findsep"
    /\ UNCHANGED <<wvars, mvars>>
    /\ UNCHANGED cur
    /\ idx >= Len(lines)
    /\ Fail(ParseError("Separator not found", path, ReportedLine))
    /\ UNCHANGED <<first, text, lines, idx, path, start_line, sep_line, content_lines,
                   result, spans>>

\* line 50-54: the opening separator
FindSepFound ==
    /\ ppc = "findsep"
    /\ UNCHANGED <<wvars, mvars>>
    /\ cur' = [cur EXCEPT !.opener = idx]
    /\ idx < Len(lines)
    /\ is_separator(Strip(LineAt(idx)))
    /\ sep_line' = Strip(LineAt(idx))
    /\ idx' = idx + 1
    /\ content_lines' = <<>>
    /\ ppc' = "collect"
    /\ UNCHANGED <<first, text, lines, path, start_line, result, returned, raised,
                   spans>>

\* a closing test that takes any separator of the opener's character
ClosesSameCharacter(line, sep) ==
    is_separator(Strip(line)) /\ Strip(line)[1] = sep[1]

\* line 55: the line closes the block
Closes(line, sep) == Strip(line) = sep

\* line 55-57: a content line
CollectStep ==
    /\ ppc = "collect"
    /\ UNCHANGED <<wvars, mvars>>
    /\ UNCHANGED cur
    /\ idx < Len(lines)
    /\ ~Closes(LineAt(idx), sep_line)
    /\ content_lines' = Append(content_lines, LineAt(idx))
    /\ idx' = idx + 1
    /\ UNCHANGED <<first, text, lines, ppc, path, start_line, sep_line, result,
                   returned, raised, spans>>

\* line 58-61: end of input before the closing separator
CollectFail ==
    /\ ppc = "collect"
    /\ UNCHANGED <<wvars, mvars>>
    /\ UNCHANGED cur
    /\ idx >= Len(lines)
    /\ Fail(ParseError("Closing separator not found", path, ReportedLine))
    /\ UNCHANGED <<first, text, lines, idx, path, start_line, sep_line, content_lines,
                   result, spans>>

\* line 62: skip the closing separator
CollectClose ==
    /\ ppc = "collect"
    /\ UNCHANGED <<wvars, mvars>>
    /\ cur' = [cur EXCEPT !.closer = idx]
    /\ idx < Len(lines)
    /\ Closes(LineAt(idx), sep_line)
    /\ idx' = idx + 1
    /\ ppc' = "endfile"
    /\ UNCHANGED <<first, text, lines, path, start_line, sep_line, content_lines,
                   result, returned, raised, spans>>

\* a report of the line of the block's FILE marker
ExpectedLineAtMarker == start_line

\* the line number a missing END FILE reports (line 67): the cursor's line
ExpectedLine == idx + 1

\* line 65-68: END FILE is missing
ExpectEndFail ==
    /\ ppc = "endfile"
    /\ UNCHANGED <<wvars, mvars>>
    /\ UNCHANGED cur
    /\ IF idx >= Len(lines) THEN TRUE ELSE Strip(LineAt(idx)) # EndFile
    /\ Fail(ParseError("Expected 'END FILE'", path, ExpectedLine))
    /\ UNCHANGED <<first, text, lines, idx, path, start_line, sep_line, content_lines,
                   result, spans>>

\* a content that joins the trimmed lines
BlockContentTrimmed(cl) == JoinAll([i \in 1..Len(cl) |-> Strip(cl[i])])

\* the content of a block (line 71)
BlockContent(cl) == JoinAll(cl)

\* a list that takes the new block at its front
EmitInFront(list, block) == <<block>> \o list

\* line 71: the block is appended to the list
Emit(list, block) == Append(list, block)

\* line 69-71: skip END FILE and emit the block
EmitBlock ==
    /\ ppc = "endfile"
    /\ UNCHANGED <<wvars, mvars>>
    /\ UNCHANGED cur
    /\ idx < Len(lines)
    /\ Strip(LineAt(idx)) = EndFile
    /\ idx' = idx + 1
    /\ result' = Emit(result, <<path, BlockContent(content_lines)>>)
    /\ spans' = Append(spans, [marker |-> cur.marker, opener |-> cur.opener,
                               closer |-> cur.closer, last |-> idx])
    /\ ppc' = "scan"
    /\ UNCHANGED <<first, text, lines, path, start_line, sep_line, content_lines,
                   returned, raised>>

\* line 31 and 73: the loop ends and the list is returned
ParseReturn ==
    /\ ppc = "scan"
    /\ UNCHANGED <<wvars, mvars>>
    /\ UNCHANGED cur
    /\ idx >= Len(lines)
    /\ returned' = Returned(result)
    /\ ppc' = "returned"
    /\ UNCHANGED <<first, text, lines, idx, path, start_line, sep_line, content_lines,
                   result, raised, spans>>

-----------------------------------------------------------------------------
(* The inputs of parse_files: every concatenation of at most MaxChunks      *)
(* chunks of ChunkPool, and every concatenation of at most MaxCoreChunks    *)
(* chunks of CoreChunks.  A chunk without a line terminator joins the next  *)
(* chunk's line.                                                            *)

ChFileA == <<"F", "I", "L", "E", " ", "a", "\n">>

ChFileB == <<"\t", "F", "I", "L", "E", " ", " ", "b", "/", "c", " ", "\r", "\n">>

ChFileOnly == <<"F", "I", "L", "E", " ", "\n">>

ChEq10 == Rep("=", 10) \o <<"\n">>

ChEq10Pad == <<" ">> \o Rep("=", 10) \o <<" ", "\n">>

ChEq12 == Rep("=", 12) \o <<"\n">>

ChDash10 == Rep("-", 10) \o <<"\n">>

ChEnd == EndFile \o <<"\n">>

ChEndNoEol == EndFile

ChText == <<" ", "x", " ", "\n">>

ChBlank == <<"\n">>

\* three content lines: text, a blank line, text within whitespace
ContentC == <<"y", "\n", "\n", "\t", "z", " ", "\r", "\n">>

\* a whole block: FILE c, a separator of dashes, ContentC
ChBlockC ==
    <<"F", "I", "L", "E", " ", "c", "\n">> \o ChDash10 \o ContentC
        \o ChDash10 \o ChEnd

ChunkPool == {ChFileA, ChFileB, ChFileOnly, ChEq10, ChEq10Pad, ChEq12, ChDash10,
              ChEnd, ChEndNoEol, ChText, ChBlank, ChBlockC}

CoreChunks == {ChFileA, ChEq10, ChEnd, ChText, ChBlockC}

SeqsUpTo(S, k) == UNION {[1..m -> S] : m \in 0..k}

Texts ==
    {JoinAll(cs) : cs \in SeqsUpTo(ChunkPool, MaxChunks)}
        \cup {JoinAll(cs) : cs \in SeqsUpTo(CoreChunks, MaxCoreChunks)}

\* line 25-29: the state of parse_files(t) before its loop
ParseInit ==
    /\ text \in Texts
    /\ lines = SplitLines(text)
    /\ idx = 0
    /\ result = <<>>
    /\ ppc = "scan"
    /\ path = NoValue
    /\ start_line = 0
    /\ sep_line = NoValue
    /\ content_lines = <<>>
    /\ returned = NotReturned
    /\ raised = NoError
    /\ cur = [marker |-> -1, opener |-> -1, closer |-> -1]
    /\ spans = <<>>
    /\ first = NoFirst

ParseNext ==
    \/ ScanSkip
    \/ ScanMarker
    \/ FindSepStep
    \/ FindSepFail
    \/ FindSepFound
    \/ CollectStep
    \/ CollectFail
    \/ CollectClose
    \/ ExpectEndFail
    \/ EmitBlock
    \/ ParseReturn

-----------------------------------------------------------------------------
(* The blocks parse_files returned, written out again in the format it      *)
(* reads and parsed anew.                                                   *)

\* a whole block: FILE d, a separator of 12 "=", and a content of two lines
\* that are separators themselves
ChBlockD ==
    <<"F", "I", "L", "E", " ", "d", "\n">> \o ChEq12 \o ChEq10 \o ChDash10
        \o ChEq12 \o ChEnd

\* the separator lines the blocks are written out with
SeparatorPool == {Rep("=", 10), Rep("=", 12), Rep("-", 10), Rep("-", 12)}

\* one block in the format lines 35-68 read: the FILE line, the separator,
\* the content, the same separator, END FILE
SerializeBlock(block, sep) ==
    FilePrefix \o block[1] \o <<"\n">> \o sep \o <<"\n">> \o block[2]
        \o sep \o <<"\n">> \o EndFile \o <<"\n">>

Serialize(bs, seps) == JoinAll([k \in 1..Len(bs) |-> SerializeBlock(bs[k], seps[k])])

\* parse_files has returned: its blocks are written out, with one separator
\* of the pool for all of them or with each block's own separator, and
\* parse_files is called on that text (line 25-29)
Reserialize ==
    /\ ppc = "returned"
    /\ UNCHANGED <<wvars, mvars>>
    /\ ~first.done
    /\ \E seps \in {[k \in 1..Len(result) |-> s] : s \in SeparatorPool}
                    \cup {[k \in 1..Len(result) |-> Strip(LineAt(spans[k].opener))]} :
        /\ first' = [done |-> TRUE, value |-> returned.value, seps |-> seps]
        /\ text' = Serialize(returned.value, seps)
    /\ lines' = SplitLines(text')
    /\ idx' = 0
    /\ result' = <<>>
    /\ ppc' = "scan"
    /\ path' = NoValue
    /\ start_line' = 0
    /\ sep_line' = NoValue
    /\ content_lines' = <<>>
    /\ returned' = NotReturned
    /\ raised' = NoError
    /\ cur' = [marker |-> -1, opener |-> -1, closer |-> -1]
    /\ spans' = <<>>

\* the candidate separator lines: a run of one character, and a run with one
\* character replaced by another
CandidateChars == {"=", "-", "*", " "}

CandidateLines ==
    {Rep(c, n) : c \in CandidateChars, n \in 0..MaxRun}
        \cup UNION {{[Rep(c, n) EXCEPT ![i] = d] : i \in 1..n} :
                        c \in CandidateChars, d \in CandidateChars, n \in 1..MaxRun}

\* a FILE line followed by one candidate line
SeparatorTexts == {ChFileA \o l \o <<"\n">> : l \in CandidateLines}

\* the search for the opening separator, and what follows it on these texts
SeparatorNext ==
    \/ ScanMarker
    \/ FindSepStep
    \/ FindSepFail
    \/ FindSepFound
    \/ CollectFail

RoundTripTexts == {JoinAll(cs) : cs \in SeqsUpTo(ChunkPool \cup {ChBlockD}, MaxChunks)}

RoundTripNext == ParseNext \/ Reserialize

-----------------------------------------------------------------------------
(* Paths (posixpath). *)

Sep == "/"

\* os.getcwd()
Cwd == <<"/", "w">>

\* os.path.join(a, b)
PathJoin(a, b) ==
    IF StartsWith(b, <<Sep>>) THEN b
    ELSE IF a = <<>> \/ a[Len(a)] = Sep THEN a \o b
    ELSE a \o <<Sep>> \o b

RECURSIVE SplitOn(_, _)
\* s.split(c)
SplitOn(s, c) ==
    LET at == {i \in 1..Len(s) : s[i] = c}
    IN  IF at = {} THEN <<s>>
        ELSE LET i == CHOOSE m \in at : \A k \in at : m <= k
             IN  <<SubSeq(s, 1, i - 1)>> \o SplitOn(SubSeq(s, i + 1, Len(s)), c)

RECURSIVE NormComps(_, _)
\* the component loop of normpath on an absolute path: "" and "." are dropped
\* and ".." removes the component before it (and is dropped at the root)
NormComps(comps, acc) ==
    IF comps = <<>> THEN acc
    ELSE LET c == Head(comps)
         IN  IF c = <<>> \/ c = <<".">> THEN NormComps(Tail(comps), acc)
             ELSE IF c = <<".", ".">>
                  THEN NormComps(Tail(comps),
                                 IF acc = <<>> THEN acc
                                 ELSE SubSeq(acc, 1, Len(acc) - 1))
             ELSE NormComps(Tail(comps), Append(acc, c))

RECURSIVE JoinSlash(_)
\* "/" + "/".join(comps), for an absolute path
JoinSlash(comps) ==
    IF comps = <<>> THEN <<>> ELSE <<Sep>> \o Head(comps) \o JoinSlash(Tail(comps))

\* os.path.abspath(p): join with the working directory, then normpath
Abspath(p) ==
    LET full  == IF StartsWith(p, <<Sep>>) THEN p ELSE PathJoin(Cwd, p)
        comps == NormComps(SplitOn(full, Sep), <<>>)
    IN  IF comps = <<>> THEN <<Sep>> ELSE JoinSlash(comps)

\* os.path.dirname(p)
Dirname(p) ==
    LET at   == {i \in 1..Len(p) : p[i] = Sep}
        head == IF at = {} THEN <<>>
                ELSE SubSeq(p, 1, CHOOSE m \in at : \A k \in at : m >= k)
    IN  IF head # <<>> /\ \E i \in 1..Len(head) : head[i] # Sep
        THEN LET keep == {i \in 1..Len(head) : head[i] # Sep}
             IN  SubSeq(head, 1, CHOOSE m \in keep : \A k \in keep : m >= k)
        ELSE head

-----------------------------------------------------------------------------
(* validate_path *)

\* line 97: the path contains ".."
HasDotDot(rel_path) == Contains(rel_path, <<".", ".">>)

\* line 100: the path starts with a slash or a backslash
IsAbsolute(rel_path) ==
    StartsWith(rel_path, <<"/">>) \/ StartsWith(rel_path, <<"\\">>)

\* line 104-107: the resolved path is not the base and not under base + os.sep
Escapes(rel_path, out) ==
    LET full_path == Abspath(PathJoin(out, rel_path))
        base_path == Abspath(out)
    IN  ~StartsWith(full_path, base_path \o <<Sep>>) /\ full_path # base_path

\* validate_path returns without raising
Accepted == "accepted"

\* a validate_path that only looks for an absolute path
validate_path_absolute_only(rel_path, out) ==
    IF IsAbsolute(rel_path) THEN "Path is absolute" ELSE Accepted

\* the message of the ValueError validate_path raises, Accepted when it returns
validate_path(rel_path, out) ==
    IF HasDotDot(rel_path) THEN "Path contains '..'"
    ELSE IF IsAbsolute(rel_path) THEN "Path is absolute"
    ELSE IF Escapes(rel_path, out) THEN "Path escapes output directory"
    ELSE Accepted

-----------------------------------------------------------------------------
(* The filesystem, as write_files uses it. *)

RECURSIVE Ancestors(_)
\* an absolute normalised path and every directory above it
Ancestors(t) == IF t = <<Sep>> THEN {t} ELSE {t} \cup Ancestors(Dirname(t))

\* a test that only sees regular files
ExistsFileOnly(p) == Abspath(p) \in DOMAIN files

\* os.path.exists(p)
Exists(p) == Abspath(p) \in dirs \/ Abspath(p) \in DOMAIN files

\* the files after p was given content c
WithFile(fs, p, c) == [q \in DOMAIN fs \cup {p} |-> IF q = p THEN c ELSE fs[q]]

-----------------------------------------------------------------------------
(* write_files *)

rel_path == blocks[wi][1]

content == blocks[wi][2]

\* line 131
file_path == PathJoin(output_dir, rel_path)

\* line 132
dir_name == Dirname(file_path)

\* a counter that goes up by two
CountTwice(kind) == [stats EXCEPT ![kind] = @ + 2]

\* stats[kind] += 1 (line 141, 145, 150, 161, 165, 168, 171)
Count(kind) == [stats EXCEPT ![kind] = @ + 1]

\* the end of one iteration of the loop at line 126: the next block is taken
Continue == wi' = wi + 1 /\ wpc' = "validate"

\* handlers that count the failure and raise it again
HandleErrorAndRaise(exc) ==
    /\ exc \in {"ValueError", "OSError", "Exception"}
    /\ stats' = Count("errors")
    /\ outcomes' = Append(outcomes, "error")
    /\ wi' = wi
    /\ wpc' = "aborted"

\* line 163-171: the three handlers count the failure; the loop goes on
HandleError(exc) ==
    /\ stats' = Count("errors")
    /\ exc \in {"ValueError", "OSError", "Exception"}
    /\ outcomes' = Append(outcomes, "error")
    /\ Continue

\* line 141-142 and 145-146: the block is skipped
Skip ==
    /\ stats' = Count("skipped")
    /\ outcomes' = Append(outcomes, "skipped")
    /\ Continue

\* line 150 and 161: the block is counted as created
Created ==
    /\ stats' = Count("created")
    /\ outcomes' = Append(outcomes, "created")
    /\ Continue

\* line 129, 163-165: validate_path raises
ValidateReject ==
    /\ wpc = "validate"
    /\ UNCHANGED <<pvars, mvars>>
    /\ wi <= Len(blocks)
    /\ validate_path(rel_path, output_dir) # Accepted
    /\ HandleError("ValueError")
    /\ UNCHANGED <<blocks, output_dir, dry_run, force, dirs, files, response,
                   report, faults, prompts, dirs0, files0>>

\* line 129-132: validate_path returns
ValidateAccept ==
    /\ wpc = "validate"
    /\ UNCHANGED <<pvars, mvars>>
    /\ wi <= Len(blocks)
    /\ validate_path(rel_path, output_dir) = Accepted
    /\ wpc' = "exists"
    /\ UNCHANGED <<blocks, output_dir, dry_run, force, dirs, files, stats, wi,
                   response, report, faults, prompts, outcomes, dirs0, files0>>

\* a condition that forgets the dry run
MustAskInDryRun == Exists(file_path) /\ ~force

\* a condition under which input() is never called
MustAskNever == FALSE

\* line 135: the condition under which input() is called
MustAsk == Exists(file_path) /\ ~force /\ ~dry_run

\* line 135-138: the file exists: input() is called
ExistsAsk ==
    /\ wpc = "exists"
    /\ UNCHANGED <<pvars, mvars>>
    /\ MustAsk
    /\ prompts' = Append(prompts, wi)
    /\ wpc' = "prompt"
    /\ UNCHANGED <<blocks, output_dir, dry_run, force, dirs, files, stats, wi,
                   response, report, faults, outcomes, dirs0, files0>>

\* line 135: no confirmation is needed
ExistsPass ==
    /\ wpc = "exists"
    /\ UNCHANGED <<pvars, mvars>>
    /\ ~MustAsk
    /\ wpc' = "materialize"
    /\ UNCHANGED <<blocks, output_dir, dry_run, force, dirs, files, stats, wi,
                   response, report, faults, prompts, outcomes, dirs0, files0>>

\* what input() can give: a line of text, or an exception
Typed(t) == [exc |-> "none", text |-> t]

Interrupted(e) == [exc |-> e, text |-> <<>>]

\* input() was not called for the current block, or its answer was used
NoResponse == Interrupted("unasked")

Responses ==
    {Typed(<<"y">>), Typed(<<"Y">>), Typed(<<"n">>),
     Interrupted("EOFError"), Interrupted("KeyboardInterrupt")}

\* str.lower(), on the letters the responses use
Lower(t) ==
    [i \in 1..Len(t) |-> CASE t[i] = "Y" -> "y" [] t[i] = "N" -> "n" [] OTHER -> t[i]]

\* a test that takes every response but "n" as a confirmation
DeclinesOnlyOnNo(r) == r.text = <<"n">>

\* line 139 and 143: the response does not confirm the overwrite
Declines(r) ==
    r.exc \in {"EOFError", "KeyboardInterrupt"} \/ Lower(r.text) # <<"y">>

\* line 138: input() gives its answer
Answer ==
    /\ wpc = "prompt"
    /\ UNCHANGED <<pvars, mvars>>
    /\ response' \in Responses
    /\ wpc' = "answered"
    /\ UNCHANGED <<blocks, output_dir, dry_run, force, dirs, files, stats, wi,
                   report, faults, prompts, outcomes, dirs0, files0>>

\* the local variable response is not read again
Forget == response' = NoResponse

\* line 139-146: the response is not "y": the block is skipped
AnswerSkip ==
    /\ wpc = "answered"
    /\ UNCHANGED <<pvars, mvars>>
    /\ Declines(response)
    /\ Skip
    /\ Forget
    /\ UNCHANGED <<blocks, output_dir, dry_run, force, dirs, files, report,
                   faults, prompts, dirs0, files0>>

\* line 139: the response is "y": the block is written
AnswerProceed ==
    /\ wpc = "answered"
    /\ UNCHANGED <<pvars, mvars>>
    /\ ~Declines(response)
    /\ wpc' = "materialize"
    /\ Forget
    /\ UNCHANGED <<blocks, output_dir, dry_run, force, dirs, files, stats, wi,
                   report, faults, prompts, outcomes, dirs0, files0>>

\* line 148-150: a dry run only counts
DryRunCount ==
    /\ wpc = "materialize"
    /\ UNCHANGED <<pvars, mvars>>
    /\ dry_run
    /\ Created
    /\ UNCHANGED <<blocks, output_dir, dry_run, force, dirs, files, response,
                   report, faults, prompts, dirs0, files0>>

\* the directories os.makedirs(d, exist_ok=True) has to make
Missing(d) == Ancestors(Abspath(d)) \ dirs

\* os.makedirs fails by itself when a file is in the way
Blocked(d) == \E a \in Ancestors(Abspath(d)) : a \in DOMAIN files

\* line 153-154: the directories are made (none when dir_name is empty)
MakedirsOk ==
    /\ wpc = "materialize"
    /\ UNCHANGED <<pvars, mvars>>
    /\ ~dry_run
    /\ dir_name # <<>> => ~Blocked(dir_name)
    /\ dirs' = IF dir_name = <<>> THEN dirs ELSE dirs \cup Missing(dir_name)
    /\ wpc' = "open"
    /\ UNCHANGED <<blocks, output_dir, dry_run, force, files, stats, wi,
                   response, report, faults, prompts, outcomes, dirs0, files0>>

\* line 154, 166-168: a file is in the way of a directory
MakedirsBlocked ==
    /\ wpc = "materialize"
    /\ UNCHANGED <<pvars, mvars>>
    /\ ~dry_run
    /\ dir_name # <<>>
    /\ Blocked(dir_name)
    /\ HandleError("OSError")
    /\ UNCHANGED <<blocks, output_dir, dry_run, force, dirs, files, response,
                   report, faults, prompts, dirs0, files0>>

\* line 154, 166-168: the environment fails os.makedirs at directory d, after
\* the directories above d were made
MakedirsFault ==
    /\ wpc = "materialize"
    /\ UNCHANGED <<pvars, mvars>>
    /\ ~dry_run
    /\ dir_name # <<>>
    /\ ~Blocked(dir_name)
    /\ faults < MaxFaults
    /\ faults' = faults + 1
    /\ \E d \in (IF Missing(dir_name) = {} THEN {Abspath(dir_name)}
                 ELSE Missing(dir_name)) :
        dirs' = dirs \cup {m \in Missing(dir_name) : Len(m) < Len(d)}
    /\ HandleError("OSError")
    /\ UNCHANGED <<blocks, output_dir, dry_run, force, files, response,
                   report, prompts, dirs0, files0>>

\* open(file_path, "w") cannot succeed: the target is a directory, or the
\* directory it should be in does not exist
CannotOpen ==
    \/ Abspath(file_path) \in dirs
    \/ Dirname(Abspath(file_path)) \notin dirs

\* a file opened in mode "a" keeps what it held
OpenedForAppend(old) == old

\* what a file holds once it was opened in mode "w": it is truncated
Opened(old) == <<>>

\* line 157: the file is created, or truncated if it exists
OpenOk ==
    /\ wpc = "open"
    /\ UNCHANGED <<pvars, mvars>>
    /\ ~CannotOpen
    /\ files' = WithFile(files, Abspath(file_path),
                         Opened(IF Abspath(file_path) \in DOMAIN files
                                THEN files[Abspath(file_path)] ELSE <<>>))
    /\ wpc' = "write"
    /\ UNCHANGED <<blocks, output_dir, dry_run, force, dirs, stats, wi,
                   response, report, faults, prompts, outcomes, dirs0, files0>>

\* line 157, 166-168: open() raises by itself
OpenBlocked ==
    /\ wpc = "open"
    /\ UNCHANGED <<pvars, mvars>>
    /\ CannotOpen
    /\ HandleError("OSError")
    /\ UNCHANGED <<blocks, output_dir, dry_run, force, dirs, files, response,
                   report, faults, prompts, dirs0, files0>>

\* line 157, 166-168: the environment fails open() (permission denied)
OpenFault ==
    /\ wpc = "open"
    /\ UNCHANGED <<pvars, mvars>>
    /\ ~CannotOpen
    /\ faults < MaxFaults
    /\ faults' = faults + 1
    /\ HandleError("OSError")
    /\ UNCHANGED <<blocks, output_dir, dry_run, force, dirs, files, response,
                   report, prompts, dirs0, files0>>

\* what the file holds once f.write(content) wrote at the end of what the
\* opened file held (line 158)
Written(old, new) == old \o new

\* line 158-161: the content is written and the block is counted
WriteOk ==
    /\ wpc = "write"
    /\ UNCHANGED <<pvars, mvars>>
    /\ files' = [files EXCEPT ![Abspath(file_path)] = Written(@, content)]
    /\ Created
    /\ UNCHANGED <<blocks, output_dir, dry_run, force, dirs, response, report,
                   faults, prompts, dirs0, files0>>

\* line 157-158, 163-171: the write fails after the file was truncated: the
\* content cannot be encoded (UnicodeEncodeError, a ValueError), the disk is
\* full (OSError), the encoding is unknown (LookupError)
WriteFault ==
    /\ wpc = "write"
    /\ UNCHANGED <<pvars, mvars>>
    /\ faults < MaxFaults
    /\ faults' = faults + 1
    /\ \E exc \in {"ValueError", "OSError", "Exception"} : HandleError(exc)
    /\ UNCHANGED <<blocks, output_dir, dry_run, force, dirs, files, response,
                   report, prompts, dirs0, files0>>

\* line 126 and 173: the list is exhausted and the counters are returned
WriteReturn ==
    /\ wpc = "validate"
    /\ UNCHANGED <<pvars, mvars>>
    /\ wi > Len(blocks)
    /\ report' = stats
    /\ wpc' = "done"
    /\ UNCHANGED <<blocks, output_dir, dry_run, force, dirs, files, stats, wi,
                   response, faults, prompts, outcomes, dirs0, files0>>

NoReport == [created |-> -1, skipped |-> -1, errors |-> -1]

-----------------------------------------------------------------------------
(* The inputs of write_files: every list of at most MaxBlocks blocks of     *)
(* BlockPool, three destination roots, every option setting, and a filesystem *)
(* in which the root is missing or already holds a.txt.  One file, secret,  *)
(* lies right above the root.                                               *)

PathA == <<"a", ".", "t", "x", "t">>

PathBC == <<"b", "/", "c", ".", "t", "x", "t">>

PathB == <<"b">>

PathUp == <<".", ".", "/", "s", "e", "c", "r", "e", "t">>

PathAbs == <<"/", "e", "t", "c", "/", "x">>

BlockPool ==
    {<<PathA, <<"X">>>>, <<PathA, <<"Y">>>>, <<PathBC, <<"Y">>>>,
     <<PathB, <<"X">>>>, <<PathUp, <<"X">>>>, <<PathAbs, <<"X">>>>}

Roots == {<<"o", "u", "t">>, <<".">>, <<"/">>}

OldContent == <<"O">>

SecretContent == <<"S">>

\* the file right above the root
Secret(root) == Abspath(PathJoin(root, PathUp))

\* the filesystem before the run
InitialDirs(root, populated) ==
    Ancestors(Cwd) \cup (IF populated THEN Ancestors(Abspath(root)) ELSE {})

InitialFiles(root, populated) ==
    LET secret == Secret(root)
        old    == Abspath(PathJoin(root, PathA))
    IN  [q \in {secret} \cup (IF populated THEN {old} ELSE {}) |->
            IF q = secret THEN SecretContent ELSE OldContent]

\* line 124: the state of write_files before its loop
WriteInit ==
    /\ blocks \in SeqsUpTo(BlockPool, MaxBlocks)
    /\ output_dir \in Roots
    /\ dry_run \in BOOLEAN
    /\ force \in BOOLEAN
    /\ \E populated \in BOOLEAN :
        /\ dirs = InitialDirs(output_dir, populated)
        /\ files = InitialFiles(output_dir, populated)
    /\ dirs0 = dirs
    /\ files0 = files
    /\ stats = [created |-> 0, skipped |-> 0, errors |-> 0]
    /\ wi = 1
    /\ wpc = "validate"
    /\ response = NoResponse
    /\ report = NoReport
    /\ faults = 0
    /\ prompts = <<>>
    /\ outcomes = <<>>

\* parse_files is not running
ParseIdle ==
    /\ text = <<>>
    /\ lines = <<>>
    /\ idx = 0
    /\ result = <<>>
    /\ ppc = "idle"
    /\ path = NoValue
    /\ start_line = 0
    /\ sep_line = NoValue
    /\ content_lines = <<>>
    /\ returned = NotReturned
    /\ raised = NoError
    /\ cur = [marker |-> -1, opener |-> -1, closer |-> -1]
    /\ spans = <<>>
    /\ first = NoFirst

\* write_files is not running
WriteIdle ==
    /\ blocks = <<>>
    /\ output_dir = <<".">>
    /\ dry_run = FALSE
    /\ force = FALSE
    /\ dirs = Ancestors(Cwd)
    /\ files = <<>>
    /\ dirs0 = dirs
    /\ files0 = files
    /\ stats = [created |-> 0, skipped |-> 0, errors |-> 0]
    /\ wi = 1
    /\ wpc = "idle"
    /\ response = NoResponse
    /\ report = NoReport
    /\ faults = 0
    /\ prompts = <<>>
    /\ outcomes = <<>>

NoStatus == -1

\* main is not running
MainIdle == mpc = "idle" /\ status = NoStatus /\ why = "none"

WriteNext ==
    \/ ValidateReject
    \/ ValidateAccept
    \/ ExistsAsk
    \/ ExistsPass
    \/ Answer
    \/ AnswerSkip
    \/ AnswerProceed
    \/ DryRunCount
    \/ MakedirsOk
    \/ MakedirsBlocked
    \/ MakedirsFault
    \/ OpenOk
    \/ OpenBlocked
    \/ OpenFault
    \/ WriteOk
    \/ WriteFault
    \/ WriteReturn

\* parse_files is called
InitParse == ParseInit /\ WriteIdle /\ MainIdle

SpecParse == InitParse /\ [][ParseNext]_vars

\* write_files is called
InitWrite == ParseIdle /\ WriteInit /\ MainIdle

SpecWrite == InitWrite /\ [][WriteNext]_vars

\* either function is called
InitCalls ==
    /\ (ParseInit /\ WriteIdle) \/ (ParseIdle /\ WriteInit)
    /\ MainIdle

CallsNext == ParseNext \/ WriteNext

SpecCalls == InitCalls /\ [][CallsNext]_vars

\* parse_files is called on a FILE line and a candidate separator line
InitSeparator ==
    /\ WriteIdle
    /\ MainIdle
    /\ text \in SeparatorTexts
    /\ lines = SplitLines(text)
    /\ idx = 0
    /\ result = <<>>
    /\ ppc = "scan"
    /\ path = NoValue
    /\ start_line = 0
    /\ sep_line = NoValue
    /\ content_lines = <<>>
    /\ returned = NotReturned
    /\ raised = NoError
    /\ cur = [marker |-> -1, opener |-> -1, closer |-> -1]
    /\ spans = <<>>
    /\ first = NoFirst

SpecSeparator == InitSeparator /\ [][SeparatorNext]_vars

\* parse_files is called, and called again on its own blocks written out
InitRoundTrip ==
    /\ WriteIdle
    /\ MainIdle
    /\ text \in RoundTripTexts
    /\ lines = SplitLines(text)
    /\ idx = 0
    /\ result = <<>>
    /\ ppc = "scan"
    /\ path = NoValue
    /\ start_line = 0
    /\ sep_line = NoValue
    /\ content_lines = <<>>
    /\ returned = NotReturned
    /\ raised = NoError
    /\ cur = [marker |-> -1, opener |-> -1, closer |-> -1]
    /\ spans = <<>>
    /\ first = NoFirst

SpecRoundTrip == InitRoundTrip /\ [][RoundTripNext]_vars

-----------------------------------------------------------------------------
(* validate_path on its own: a dry run of write_files over one block, for   *)
(* more paths and more destination roots.                                   *)

PathUpEtc == <<".", ".", "/", "e", "t", "c", "/", "p", "a", "s", "s", "w", "d">>

PathEtc == <<"/", "e", "t", "c", "/", "p", "a", "s", "s", "w", "d">>

PathUpUp == <<"a", "/", ".", ".", "/", ".", ".", "/", "b">>

PathABC == <<"a", "/", "b", "/", "c", ".", "t", "x", "t">>

PathDotA == <<".", "/", "a", ".", "t", "x", "t">>

ValidatePaths ==
    {PathUpEtc, PathEtc, PathUpUp, PathABC, PathDotA, PathA, PathBC, PathUp,
     <<>>, <<".">>, <<"a", ".", ".", "b">>, <<"\\", "x">>, <<"b", "/">>}

ValidateRoots ==
    {<<"o", "u", "t">>, <<".">>, <<"/">>, <<"/", "w", "/", "o", "u", "t", "/">>,
     <<".", ".">>, <<"o", "u", "t", "/", ".", "/", "s", "u", "b">>}

InitValidate ==
    /\ ParseIdle
    /\ MainIdle
    /\ blocks \in {<<<<p, <<"X">>>>>> : p \in ValidatePaths}
    /\ output_dir \in ValidateRoots
    /\ dry_run = TRUE
    /\ force \in BOOLEAN
    /\ \E populated \in BOOLEAN :
        /\ dirs = InitialDirs(output_dir, populated)
        /\ files = InitialFiles(output_dir, populated)
    /\ dirs0 = dirs
    /\ files0 = files
    /\ stats = [created |-> 0, skipped |-> 0, errors |-> 0]
    /\ wi = 1
    /\ wpc = "validate"
    /\ response = NoResponse
    /\ report = NoReport
    /\ faults = 0
    /\ prompts = <<>>
    /\ outcomes = <<>>

ValidateNext ==
    \/ ValidateReject
    \/ ValidateAccept
    \/ ExistsPass
    \/ DryRunCount
    \/ WriteReturn

SpecValidate == InitValidate /\ [][ValidateNext]_vars

-----------------------------------------------------------------------------
(* main: the input is read, parse_files is called on it, the destination    *)
(* root is made and write_files is called on the blocks.  A KeyboardInterrupt *)
(* can reach main at any moment but inside input(), where write_files       *)
(* catches it.                                                              *)

\* an exit status that is always success
ExitStatusAlwaysZero(errors) == 0

\* line 296: the exit status after write_files returned
ExitStatus(errors) == IF errors > 0 THEN 1 ELSE 0

\* main returns code at the statement named by reason
MainReturn(code, reason) ==
    /\ status' = code
    /\ why' = reason
    /\ mpc' = "exit"

\* line 260-262, 298-300: the input file cannot be opened
MainReadFail ==
    /\ mpc = "read"
    /\ MainReturn(1, "FileNotFoundError")
    /\ UNCHANGED <<pvars, wvars>>

\* line 264-266: the input is blank
MainEmpty ==
    /\ mpc = "read"
    /\ Strip(text) = <<>>
    /\ MainReturn(1, "Input is empty")
    /\ UNCHANGED <<pvars, wvars>>

\* line 270: parse_files is called on the input
MainCallParse ==
    /\ mpc = "read"
    /\ Strip(text) # <<>>
    /\ lines' = SplitLines(text)
    /\ ppc' = "scan"
    /\ mpc' = "parse"
    /\ UNCHANGED <<text, idx, path, start_line, sep_line, content_lines, result,
                   returned, raised, cur, spans, first>>
    /\ UNCHANGED <<wvars, status, why>>

\* line 270, 301-303: parse_files raised
MainParseError ==
    /\ mpc = "parse"
    /\ ppc = "raised"
    /\ MainReturn(1, "ValueError")
    /\ UNCHANGED <<pvars, wvars>>

\* line 272-274: parse_files returned no block
MainNoBlocks ==
    /\ mpc = "parse"
    /\ ppc = "returned"
    /\ returned.value = <<>>
    /\ MainReturn(0, "No file blocks found")
    /\ UNCHANGED <<pvars, wvars>>

\* line 279: the destination root has to be made
MakesRoot == output_dir # <<".">> /\ ~dry_run

\* line 279-290: the destination root is made and write_files is called
MainCallWrite ==
    /\ mpc = "parse"
    /\ ppc = "returned"
    /\ returned.value # <<>>
    /\ MakesRoot => ~Blocked(output_dir)
    /\ dirs' = IF MakesRoot THEN dirs \cup Missing(output_dir) ELSE dirs
    /\ dirs0' = dirs'
    /\ blocks' = returned.value
    /\ wpc' = "validate"
    /\ mpc' = "write"
    /\ UNCHANGED <<output_dir, dry_run, force, files, stats, wi, response,
                   report, faults, prompts, outcomes, files0>>
    /\ UNCHANGED <<pvars, status, why>>

\* line 280, 307-312: the destination root cannot be made
MainMakedirsFault ==
    /\ mpc = "parse"
    /\ ppc = "returned"
    /\ returned.value # <<>>
    /\ MakesRoot
    /\ faults < MaxFaults
    /\ faults' = faults + 1
    /\ MainReturn(1, "Exception")
    /\ UNCHANGED <<blocks, output_dir, dry_run, force, dirs, files, stats, wi,
                   wpc, response, report, prompts, outcomes, dirs0, files0>>
    /\ UNCHANGED pvars

\* line 284-296: write_files returned its counters
MainReport ==
    /\ mpc = "write"
    /\ wpc = "done"
    /\ MainReturn(ExitStatus(report.errors), "Summary")
    /\ UNCHANGED <<pvars, wvars>>

\* line 304-306: a KeyboardInterrupt reaches main: whatever was running is
\* abandoned
MainInterrupt ==
    /\ mpc \in {"read", "parse", "write"}
    /\ wpc # "prompt"
    /\ MainReturn(130, "KeyboardInterrupt")
    /\ ppc' = IF ppc \in {"scan", "findsep", "collect", "endfile"}
              THEN "interrupted" ELSE ppc
    /\ wpc' = IF wpc \in {"validate", "exists", "answered", "materialize",
                          "open", "write"}
              THEN "interrupted" ELSE wpc
    /\ UNCHANGED <<text, lines, idx, path, start_line, sep_line, content_lines,
                   result, returned, raised, cur, spans, first>>
    /\ UNCHANGED <<blocks, output_dir, dry_run, force, dirs, files, stats, wi,
                   response, report, faults, prompts, outcomes, dirs0, files0>>

\* longest input of main, in chunks
MaxMainChunks == 2

\* the inputs of main: whole blocks for the writer's paths, a stray line, a
\* blank line, and a block that stops after its FILE line, after its opener
\* and after its closer
MainChunks ==
    {SerializeBlock(<<PathA, <<"X", "\n">>>>, Rep("=", 10)),
     SerializeBlock(<<PathA, <<>>>>, Rep("-", 10)),
     SerializeBlock(<<PathBC, <<"Y", "\n">>>>, Rep("=", 10)),
     SerializeBlock(<<PathB, <<"X", "\n">>>>, Rep("=", 10)),
     SerializeBlock(<<PathUp, <<"X", "\n">>>>, Rep("=", 10)),
     ChText, ChBlank, ChFileA, ChFileA \o ChEq10, ChFileA \o ChEq10 \o ChEq10}

MainTexts == {JoinAll(cs) : cs \in SeqsUpTo(MainChunks, MaxMainChunks)}

\* line 252-257: main is about to read its input
InitMain ==
    /\ text \in MainTexts
    /\ lines = <<>>
    /\ idx = 0
    /\ result = <<>>
    /\ ppc = "idle"
    /\ path = NoValue
    /\ start_line = 0
    /\ sep_line = NoValue
    /\ content_lines = <<>>
    /\ returned = NotReturned
    /\ raised = NoError
    /\ cur = [marker |-> -1, opener |-> -1, closer |-> -1]
    /\ spans = <<>>
    /\ first = NoFirst
    /\ blocks = <<>>
    /\ output_dir \in Roots
    /\ dry_run \in BOOLEAN
    /\ force \in BOOLEAN
    /\ \E populated \in BOOLEAN :
        /\ dirs = InitialDirs(output_dir, populated)
        /\ files = InitialFiles(output_dir, populated)
    /\ dirs0 = dirs
    /\ files0 = files
    /\ stats = [created |-> 0, skipped |-> 0, errors |-> 0]
    /\ wi = 1
    /\ wpc = "idle"
    /\ response = NoResponse
    /\ report = NoReport
    /\ faults = 0
    /\ prompts = <<>>
    /\ outcomes = <<>>
    /\ mpc = "read"
    /\ status = NoStatus
    /\ why = "none"

MainNext ==
    \/ MainReadFail
    \/ MainEmpty
    \/ MainCallParse
    \/ MainParseError
    \/ MainNoBlocks
    \/ MainCallWrite
    \/ MainMakedirsFault
    \/ MainReport
    \/ MainInterrupt
    \/ ParseNext
    \/ WriteNext

SpecMain == InitMain /\ [][MainNext]_vars

-----------------------------------------------------------------------------
(* Properties of write_files.                                               *)

\* p is rejected as the writer's contract words it: it contains "..", it
\* starts with a separator (a slash or a backslash), or joined to the root
\* and normalised it is neither the root nor under root + separator
Unsafe(p, root) ==
    \/ \E i \in 1..(Len(p) - 1) : p[i] = "." /\ p[i + 1] = "."
    \/ (p # <<>> /\ p[1] \in {"/", "\\"})
    \/ LET resolved == Abspath(PathJoin(root, p))
           base     == Abspath(root)
       IN  resolved # base /\ ~StartsWith(resolved, base \o <<"/">>)

\* the absolute path p is the directory base or lies under it
Inside(p, base) ==
    p = base \/ StartsWith(p, IF base = <<"/">> THEN base ELSE base \o <<"/">>)

\* the number of blocks processed so far that ended as kind
Ended(kind) == Cardinality({k \in 1..Len(outcomes) : outcomes[k] = kind})

C1_RejectedBlockHasNoEffect ==
    (wpc = "validate" /\ wi <= Len(blocks) /\ Unsafe(rel_path, output_dir))
        => /\ dirs' = dirs
           /\ files' = files
           /\ prompts' = prompts
           /\ stats' = [stats EXCEPT !.errors = @ + 1]
           /\ wi' = wi + 1

C1_NothingOutsideRoot ==
    \A p \in DOMAIN files \cup DOMAIN files0 :
        ~Inside(p, Abspath(output_dir))
            => p \in DOMAIN files /\ p \in DOMAIN files0 /\ files[p] = files0[p]

\* C1: a block whose path is unsafe is dealt with in one step that asks
\* nothing, makes no directory, writes no file, adds one to errors and moves
\* to the next block; and at every moment of a run every file outside the
\* destination root is as it was before the run.
C1_PathValidatedFirst ==
    [][C1_RejectedBlockHasNoEffect]_vars /\ []C1_NothingOutsideRoot

\* an escaping block between two written blocks left the file above the root alone
C1_Witness ==
    /\ wpc = "done"
    /\ ~dry_run
    /\ Len(blocks) = 3
    /\ blocks[2][1] = PathUp
    /\ outcomes = <<"created", "error", "created">>
    /\ files[Secret(output_dir)] = SecretContent

\* C2: every failure is counted in errors and the loop goes on: the blocks
\* processed so far are exactly those before the cursor, errors counts the
\* blocks that failed (at least the unsafe paths met and the I/O failures
\* injected), write_files is inside its loop until it returns, and it returns
\* only after the last block.
C2_FailureNeverAborts ==
    /\ wi = Len(outcomes) + 1
    /\ stats.errors = Ended("error")
    /\ stats.errors >= faults + Cardinality({k \in 1..Len(outcomes) :
                                               Unsafe(blocks[k][1], output_dir)})
    /\ wpc \in {"validate", "exists", "prompt", "answered", "materialize",
                "open", "write", "done"}
    /\ wpc # "done" => wi <= Len(blocks) + 1
    /\ wpc = "done" => Len(outcomes) = Len(blocks) /\ report = stats

\* a batch of three blocks whose first block failed still processed the other two
C2_Witness ==
    /\ wpc = "done"
    /\ Len(blocks) = 3
    /\ outcomes = <<"error", "created", "created">>
    /\ report = [created |-> 2, skipped |-> 0, errors |-> 1]

\* C10 as stated: validate_path rejects a path exactly when it is unsafe (it
\* contains "..", starts with a separator, or resolves to neither the root nor
\* a path under root + separator); it rejects "../etc/passwd", "/etc/passwd"
\* and "a/../../b" and accepts "a/b/c.txt" and "./a.txt".
C10_AsClaimed ==
    (Len(blocks) = 1 /\ Len(outcomes) = 1)
        => LET p        == blocks[1][1]
               rejected == outcomes[1] = "error"
           IN  /\ rejected <=> Unsafe(p, output_dir)
               /\ p \in {PathUpEtc, PathEtc, PathUpUp} => rejected
               /\ p \in {PathABC, PathDotA} => ~rejected

\* the response is an interruption, or a text other than "y" and "Y"
Negative(r) ==
    r.exc \in {"EOFError", "KeyboardInterrupt"}
        \/ (r.exc = "none" /\ r.text \notin {<<"y">>, <<"Y">>})

C5_DeclinedStep ==
    (wpc = "answered" /\ Negative(response))
        => /\ stats' = [stats EXCEPT !.skipped = @ + 1]
           /\ files' = files
           /\ dirs' = dirs
           /\ wi' = wi + 1
           /\ wpc' = "validate"

C5_AskedOnlyForExisting ==
    /\ wpc \in {"prompt", "answered"} => Exists(file_path) /\ ~force /\ ~dry_run
    /\ (wpc = "done" /\ outcomes = <<"skipped">>)
        => /\ report = [created |-> 0, skipped |-> 1, errors |-> 0]
           /\ files = files0

\* C5: a confirmation is pending only for a block whose target exists, with
\* force and dry_run false; when the answer is an interruption (EOFError,
\* KeyboardInterrupt) or any text but "y"/"Y", the next step adds one to
\* skipped and to nothing else, leaves every file and directory as it is and
\* moves to the next block; a run of one declined block reports skipped 1,
\* created 0 and leaves the files as they were.
C5_DeclinedOverwriteSkips == [][C5_DeclinedStep]_vars /\ []C5_AskedOnlyForExisting

\* the overwrite of a.txt was declined, a.txt is as before, the next block was written
C5_Witness ==
    /\ wpc = "done"
    /\ Len(blocks) = 2
    /\ blocks[1][1] = PathA
    /\ outcomes = <<"skipped", "created">>
    /\ files[Abspath(PathJoin(output_dir, PathA))] = OldContent
    /\ report = [created |-> 1, skipped |-> 1, errors |-> 0]

\* C6: in a dry run the directories and files stay as they were before the
\* run, input() is never called, every processed block whose path is not
\* rejected ended as created, and the report counts them (3 for three such
\* blocks).
C6_DryRunTouchesNothing ==
    dry_run
        => /\ dirs = dirs0
           /\ files = files0
           /\ prompts = <<>>
           /\ \A k \in 1..Len(outcomes) :
                ~Unsafe(blocks[k][1], output_dir) => outcomes[k] = "created"
           /\ wpc = "done"
                => report.created = Cardinality({k \in 1..Len(blocks) :
                                        ~Unsafe(blocks[k][1], output_dir)})

\* a dry run without force over three valid blocks, one of them an existing file
C6_Witness ==
    /\ dry_run /\ ~force
    /\ wpc = "done"
    /\ report = [created |-> 3, skipped |-> 0, errors |-> 0]
    /\ \E k \in 1..3 : Abspath(PathJoin(output_dir, blocks[k][1])) \in DOMAIN files0

\* the file block k is written to
Target(k) == Abspath(PathJoin(output_dir, blocks[k][1]))

\* a forced run over valid paths that ended without a failure
ForcedCleanRun ==
    /\ wpc = "done"
    /\ force /\ ~dry_run
    /\ \A k \in 1..Len(blocks) : ~Unsafe(blocks[k][1], output_dir)
    /\ Ended("error") = 0

\* nothing lies under the root before the run
EmptyRoot ==
    \A q \in dirs0 \cup DOMAIN files0 :
        q = Abspath(output_dir) \/ ~Inside(q, Abspath(output_dir))

ExampleBlocks == <<<<PathA, <<"X">>>>, <<PathBC, <<"Y">>>>>>

C7_Example ==
    (ForcedCleanRun /\ blocks = ExampleBlocks /\ EmptyRoot)
        => /\ DOMAIN files = DOMAIN files0 \cup {Target(1), Target(2)}
           /\ files[Target(1)] = <<"X">>
           /\ files[Target(2)] = <<"Y">>
           /\ report = [created |-> 2, skipped |-> 0, errors |-> 0]

\* C7 as stated: after a forced run over valid paths without I/O failure
\* every block's target holds exactly that block's content.
C7_AsClaimed ==
    ForcedCleanRun
        => /\ \A k \in 1..Len(blocks) :
                /\ Target(k) \in DOMAIN files
                /\ files[Target(k)] = blocks[k][2]
                /\ Ancestors(Dirname(Target(k))) \subseteq dirs
           /\ report = [created |-> Len(blocks), skipped |-> 0, errors |-> 0]
           /\ C7_Example

\* C7, amended: after a forced run over valid paths without I/O failure every
\* block's target exists and holds exactly the content of the last block
\* written to that file, every directory above it exists, and the report is
\* created = number of blocks, skipped = 0, errors = 0; the two example
\* blocks on an empty root give a.txt = X, b/c.txt = Y and created 2.
C7_ForcedRunWritesLastContent ==
    ForcedCleanRun
        => /\ \A k \in 1..Len(blocks) :
                LET last == CHOOSE j \in 1..Len(blocks) :
                                /\ Target(j) = Target(k)
                                /\ \A i \in 1..Len(blocks) :
                                        Target(i) = Target(k) => i <= j
                IN  /\ Target(k) \in DOMAIN files
                    /\ files[Target(k)] = blocks[last][2]
                    /\ Ancestors(Dirname(Target(k))) \subseteq dirs
           /\ report = [created |-> Len(blocks), skipped |-> 0, errors |-> 0]
           /\ C7_Example

\* a forced run replaced the old a.txt twice and made b/c.txt
C7_Witness ==
    /\ ForcedCleanRun
    /\ blocks = <<<<PathA, <<"X">>>>, <<PathBC, <<"Y">>>>, <<PathA, <<"Y">>>>>>
    /\ Target(1) \in DOMAIN files0
    /\ files[Target(1)] = <<"Y">>
    /\ report = [created |-> 3, skipped |-> 0, errors |-> 0]

\* the target of the block being processed is a file or a directory now
TargetExists == Target(wi) \in dirs \/ Target(wi) \in DOMAIN files

C17_InOrder ==
    /\ wi = Len(outcomes) + 1
    /\ \A j \in 1..Len(prompts) :
            /\ prompts[j] \in 1..Len(blocks)
            /\ prompts[j] <= wi
            /\ j < Len(prompts) => prompts[j] < prompts[j + 1]
    /\ wpc \in {"prompt", "answered"}
            => prompts # <<>> /\ prompts[Len(prompts)] = wi
    /\ wpc \in {"exists", "prompt", "answered", "materialize", "open", "write"}
            => wi <= Len(blocks) /\ ~Unsafe(rel_path, output_dir)

C17_AskStep ==
    /\ wi' \in {wi, wi + 1}
    /\ (wpc = "validate" /\ wi <= Len(blocks) /\ ~Unsafe(rel_path, output_dir))
            => wpc' = "exists" /\ wi' = wi
    /\ prompts' # prompts
            => /\ wpc = "exists"
               /\ prompts' = Append(prompts, wi)
               /\ TargetExists /\ ~force /\ ~dry_run
    /\ (wpc = "exists" /\ TargetExists /\ ~force /\ ~dry_run)
            => prompts' = Append(prompts, wi) /\ wpc' = "prompt"

\* C17: the blocks are processed one at a time in list order: the cursor is
\* always one past the blocks already processed and moves by one; a block
\* with a valid path comes to the existence test; there, input() is called
\* for it exactly when its target exists at that moment and force and dry_run
\* are false, and it is called nowhere else; the blocks asked about are
\* strictly increasing, so none is asked twice and the questions come in
\* block order.
C17_PromptsInBlockOrder == []C17_InOrder /\ [][C17_AskStep]_vars

\* the first and the third block were asked about, the second was not
C17_Witness ==
    /\ wpc = "done"
    /\ Len(blocks) = 3
    /\ prompts = <<1, 3>>
    /\ blocks[2][1] = PathBC
    /\ outcomes[2] = "created"

\* created + skipped + errors
Total(s) == s.created + s.skipped + s.errors

C19_SumIsProcessed ==
    /\ Total(stats) = Len(outcomes)
    /\ Total(stats) = wi - 1
    /\ \A kind \in {"created", "skipped", "errors"} : stats[kind] >= 0
    /\ stats.created = Ended("created")
    /\ stats.skipped = Ended("skipped")
    /\ stats.errors = Ended("error")
    /\ wpc = "done" => report = stats /\ Total(report) = Len(blocks)

C19_CounterStep ==
    /\ \A kind \in {"created", "skipped", "errors"} :
            stats'[kind] \in {stats[kind], stats[kind] + 1}
    /\ Total(stats') \in {Total(stats), Total(stats) + 1}
    /\ (Total(stats') = Total(stats) + 1) <=> (wi' = wi + 1)

\* C19: the three counters always add up to the number of blocks processed
\* so far, each counts the blocks that ended its way, a step changes at most
\* one of them, by one and upward, exactly when it ends a block, and the
\* report of write_files adds up to the number of blocks.
C19_CountersPartition == []C19_SumIsProcessed /\ [][C19_CounterStep]_vars

\* a run of three blocks ended with one created, one skipped and one failed
C19_Witness ==
    /\ wpc = "done"
    /\ Len(blocks) = 3
    /\ report = [created |-> 1, skipped |-> 1, errors |-> 1]

\* two blocks name the same valid path, no file or directory is there before
\* the run, the run is not a dry run and nothing failed
SamePathTwice ==
    /\ Len(blocks) = 2
    /\ blocks[1][1] = blocks[2][1]
    /\ ~Unsafe(blocks[1][1], output_dir)
    /\ Target(1) \notin dirs0 /\ Target(1) \notin DOMAIN files0
    /\ ~dry_run
    /\ faults = 0

\* the last block of the batch that is written to the file of block k
LastOn(k) ==
    CHOOSE j \in 1..Len(blocks) :
        /\ Target(j) = Target(k)
        /\ \A i \in 1..Len(blocks) : Target(i) = Target(k) => i <= j

C20_SecondBlockAsks ==
    /\ (SamePathTwice /\ ~force /\ wi = 2)
        => /\ outcomes = <<"created">>
           /\ prompts = IF wpc \in {"validate", "exists"} THEN <<>> ELSE <<2>>
           /\ wpc # "validate" => TargetExists
           /\ wpc \in {"prompt", "answered"} => files[Target(1)] = blocks[1][2]
    /\ (SamePathTwice /\ ~force /\ wpc = "done")
        => /\ prompts = <<2>>
           /\ \/ /\ outcomes = <<"created", "created">>
                 /\ files[Target(1)] = blocks[2][2]
                 /\ report = [created |-> 2, skipped |-> 0, errors |-> 0]
              \/ /\ outcomes = <<"created", "skipped">>
                 /\ files[Target(1)] = blocks[1][2]
                 /\ report = [created |-> 1, skipped |-> 1, errors |-> 0]
    /\ (force /\ ~dry_run /\ faults = 0 /\ wpc = "done"
            /\ \A k \in 1..Len(blocks) : ~Unsafe(blocks[k][1], output_dir)
            /\ Ended("error") = 0)
        => /\ prompts = <<>>
           /\ \A k \in 1..Len(blocks) : files[Target(k)] = blocks[LastOn(k)][2]

C20_AnswerDecides ==
    (SamePathTwice /\ ~force /\ wi = 2 /\ wpc = "answered")
        => IF response.exc = "none" /\ response.text \in {<<"y">>, <<"Y">>}
           THEN wpc' = "materialize" /\ wi' = 2 /\ files' = files
           ELSE outcomes' = <<"created", "skipped">> /\ files' = files

\* C20: when two blocks name the same valid path and nothing is there before
\* a run without force and dry_run, the first block is written without a
\* question and input() is called for the second, once, while the file holds
\* the first content; an answer "y" leads to the write, and the run ends
\* with the second content and created 2; any other answer ends the block as
\* skipped, and the run ends with the first content, created 1, skipped 1.
\* With force nothing is asked and every file ends with the content of the
\* last block naming it.
C20_DuplicatePath == []C20_SecondBlockAsks /\ [][C20_AnswerDecides]_vars

\* the overwrite by the second block was declined: a.txt keeps the first content
C20_Witness ==
    /\ wpc = "done"
    /\ SamePathTwice /\ ~force
    /\ blocks = <<<<PathA, <<"X">>>>, <<PathA, <<"Y">>>>>>
    /\ outcomes = <<"created", "skipped">>
    /\ files[Target(1)] = <<"X">>

-----------------------------------------------------------------------------
(* Properties of parse_files.                                               *)

\* the trimmed form of the line with 0-based index i
Trimmed(i) == Strip(lines[i + 1])

\* the number of characters of text before the line with 0-based index i
RECURSIVE Offset(_)
Offset(i) == IF i = 0 THEN 0 ELSE Offset(i - 1) + Len(lines[i])

\* a line after the opener of the current block is identical to it
IdenticalLineFollows ==
    \E j \in (cur.opener + 1)..(Len(lines) - 1) : Trimmed(j) = Trimmed(cur.opener)

\* C3: the line taken as a block's closer has the same trimmed text as the
\* block's opener, for the block being parsed and for every emitted block; a
\* "Closing separator not found" failure means that no line after the opener
\* is identical to it; and when no identical line follows the opener, the
\* parse is still collecting or has failed with that error, the block is not
\* emitted and nothing is returned.
C3_CloserIdenticalToOpener ==
    /\ (cur.closer # -1) => Trimmed(cur.closer) = Trimmed(cur.opener)
    /\ \A k \in 1..Len(spans) : Trimmed(spans[k].closer) = Trimmed(spans[k].opener)
    /\ (ppc = "raised" /\ raised.msg = "Closing separator not found")
        => cur.opener # -1 /\ ~IdenticalLineFollows
    /\ (cur.opener # -1 /\ ~IdenticalLineFollows)
        => /\ ppc \in {"collect", "raised"}
           /\ ppc = "raised" => raised.msg = "Closing separator not found"
           /\ ~returned.done
           /\ \A k \in 1..Len(spans) : spans[k].opener # cur.opener

\* a block opened by 12 "=" failed although a run of 10 "=" follows the opener
C3_Witness ==
    /\ ppc = "raised"
    /\ raised.msg = "Closing separator not found"
    /\ sep_line = Rep("=", 12)
    /\ \E j \in (cur.opener + 1)..(Len(lines) - 1) : Trimmed(j) = Rep("=", 10)

\* C4: the content of every emitted block is the piece of the input text from
\* the end of the opener line to the start of the closer line, where the
\* closer is the first line after the opener whose trimmed form is the
\* opener's; the FILE line is before the opener and END FILE is the line after
\* the closer.
C4_ContentVerbatim ==
    /\ Len(spans) = Len(result)
    /\ \A k \in 1..Len(result) :
        LET sp == spans[k]
        IN  /\ sp.marker < sp.opener /\ sp.opener < sp.closer
            /\ sp.last = sp.closer + 1
            /\ Trimmed(sp.closer) = Trimmed(sp.opener)
            /\ \A j \in (sp.opener + 1)..(sp.closer - 1) :
                    Trimmed(j) # Trimmed(sp.opener)
            /\ result[k][2] = SubSeq(text, Offset(sp.opener + 1) + 1,
                                     Offset(sp.closer))
            /\ sp.closer = sp.opener + 1 => result[k][2] = <<>>

\* a block was emitted whose content has a blank line and lines with whitespace
C4_Witness == \E k \in 1..Len(result) : result[k][2] = ContentC

C8_ReportsMarker ==
    (ppc = "raised"
        /\ raised.msg \in {"Separator not found", "Closing separator not found"})
    => /\ idx >= Len(lines)
       /\ raised.line = cur.marker + 1
       /\ StartsWith(Trimmed(cur.marker), FilePrefix)
       /\ raised.path = Strip(SubSeq(Trimmed(cur.marker), Len(FilePrefix) + 1,
                                     Len(Trimmed(cur.marker))))

C8_NoSilentEnd ==
    ppc = "returned"
        => (cur.marker # -1
                => spans # <<>> /\ spans[Len(spans)].marker = cur.marker)

\* C8: a "Separator not found" or "Closing separator not found" failure
\* happens at the end of the input and carries the path and the 1-based
\* number of the FILE line that opened the failing block; and parse_files
\* returns only when the last block it opened was emitted.
C8_ErrorNamesMarkerLine == C8_ReportsMarker /\ C8_NoSilentEnd

\* the search for a separator failed and the marker is not the last line
C8_Witness ==
    /\ ppc = "raised"
    /\ raised.msg = "Separator not found"
    /\ raised.line < Len(lines)
    /\ raised.path = <<"b", "/", "c">>

C9_NothingReturned ==
    /\ ppc = "raised" => ~returned.done /\ raised # NoError
    /\ returned.done => ppc = "returned" /\ raised = NoError
                            /\ returned.value = result

\* C9: once parse_files has raised, no list was returned, whatever was parsed
\* before, and no further step of the parse is taken; a list is returned only
\* by a parse that did not raise.
C9_FailureReturnsNoBlocks == []C9_NothingReturned /\ [][ppc # "raised"]_vars

\* the parse failed after one block had been parsed
C9_Witness == ppc = "raised" /\ Len(result) >= 1 /\ ~returned.done

\* the line after the closer of the current block is missing or is not
\* END FILE
EndFileMissing ==
    /\ cur.closer # -1
    /\ IF cur.closer + 1 >= Len(lines) THEN TRUE
       ELSE Trimmed(cur.closer + 1) # <<"E", "N", "D", " ", "F", "I", "L", "E">>

\* C13: every emitted block ends with a line, right after its closer, whose
\* trimmed form is END FILE; when the line after the current block's closer
\* is missing or is anything else, the parse is at that line or has failed
\* with "Expected 'END FILE'", and the block is not emitted; and that failure
\* happens only then and carries the path of the block's FILE line and the
\* 1-based number of the line after the closer.
C13_EndFileRequired ==
    /\ \A k \in 1..Len(spans) :
            /\ spans[k].last = spans[k].closer + 1
            /\ Trimmed(spans[k].last) = <<"E", "N", "D", " ", "F", "I", "L", "E">>
    /\ EndFileMissing
        => /\ ppc \in {"endfile", "raised"}
           /\ ppc = "raised" => raised.msg = "Expected 'END FILE'"
           /\ \A k \in 1..Len(spans) : spans[k].closer # cur.closer
    /\ (ppc = "raised" /\ raised.msg = "Expected 'END FILE'")
        => /\ EndFileMissing
           /\ raised.line = (cur.closer + 1) + 1
           /\ raised.path = Strip(SubSeq(Trimmed(cur.marker), 6,
                                         Len(Trimmed(cur.marker))))

\* the line after the closer of the second block is a line of text, and the
\* failure names that line
C13_Witness ==
    /\ ppc = "raised"
    /\ raised.msg = "Expected 'END FILE'"
    /\ Len(result) = 1
    /\ cur.closer + 1 < Len(lines)
    /\ raised.line > start_line + 2

\* p is not empty and neither starts nor ends with whitespace
CleanPath(p) == p # <<>> /\ p[1] \notin Whitespace /\ p[Len(p)] \notin Whitespace

\* the line with 0-based index i has the trimmed form FILE
BareMarker(i) == Trimmed(i) = <<"F", "I", "L", "E">>

C14_PathsClean ==
    /\ \A k \in 1..Len(result) : CleanPath(result[k][1])
    /\ ppc \in {"findsep", "collect", "endfile"} => CleanPath(path)
    /\ \A k \in 1..Len(spans) : ~BareMarker(spans[k].marker)
    /\ cur.marker # -1 => ~BareMarker(cur.marker)

C14_BareMarkerStep ==
    (ppc = "scan" /\ idx < Len(lines) /\ BareMarker(idx))
        => ppc' = "scan" /\ idx' = idx + 1 /\ result' = result

\* C14: the path of the block being parsed and of every emitted block is not
\* empty and has no whitespace at either end; no block starts at a line whose
\* trimmed form is just FILE: outside a block such a line only moves the
\* cursor.
C14_PathNeverEmpty == []C14_PathsClean /\ [][C14_BareMarkerStep]_vars

\* a line "FILE " came first and opened nothing; the block after it was emitted
C14_Witness ==
    /\ Len(result) = 1
    /\ spans[1].marker = 1
    /\ lines[1] = <<"F", "I", "L", "E", " ", "\n">>
    /\ CleanPath(result[1][1])

C15_BlocksInOrder ==
    /\ Len(result) = Len(spans)
    /\ \A k \in 1..Len(spans) :
            /\ spans[k].marker < spans[k].opener
            /\ spans[k].opener < spans[k].closer
            /\ spans[k].closer < spans[k].last
            /\ result[k][1] = Strip(SubSeq(Trimmed(spans[k].marker), 6,
                                            Len(Trimmed(spans[k].marker))))
            /\ k < Len(spans) => spans[k].last < spans[k + 1].marker
    /\ (cur.marker # -1 /\ spans # <<>>) => spans[Len(spans)].marker <= cur.marker
    /\ (ppc \in {"findsep", "collect", "endfile"} /\ spans # <<>>)
            => spans[Len(spans)].last < cur.marker
    /\ idx <= Len(lines)

C15_CursorStep ==
    /\ idx' >= idx
    /\ idx' <= idx + 1
    /\ (ppc = "endfile" /\ ppc' = "scan")
            => /\ Len(spans') = Len(spans) + 1
               /\ idx' = spans'[Len(spans')].last + 1
    /\ (ppc = "scan" /\ ppc' = "findsep") => cur'.marker = idx

\* C15: the emitted blocks are in the order of their FILE lines: block k's
\* path is that of the k-th emitted span's marker line, every span runs from
\* its marker through opener and closer to its END FILE line, and each span
\* ends before the next one starts; the block being parsed starts after the
\* last emitted block's END FILE; after a block is emitted the scan goes on at
\* the line after its END FILE; and the cursor moves by at most one line at a
\* step, never backward.
C15_SequentialNonOverlapping == []C15_BlocksInOrder /\ [][C15_CursorStep]_vars

\* two blocks with different paths were returned in the order of their markers
C15_Witness ==
    /\ ppc = "returned"
    /\ Len(result) = 2
    /\ result[1][1] # result[2][1]
    /\ spans[1].last < spans[2].marker

\* s has at least 10 characters, all the same, and that one is "=" or "-"
IsRun(s) ==
    /\ Len(s) >= 10
    /\ \A i \in 1..Len(s) : s[i] = s[1]
    /\ s[1] \in {"=", "-"}

\* the lines after the current FILE line that the search for a separator
\* has examined and passed over
PassedOver ==
    IF cur.marker = -1 THEN {}
    ELSE (cur.marker + 1)..((IF cur.opener # -1 THEN cur.opener ELSE idx) - 1)

\* C16: the line the search for a separator stops at is a run of at least 10
\* identical characters "=" or "-" (trimmed), and no line it passed over is
\* one; so a run of 9 "=" or of 9 "-" is passed over, a run of 10 is taken,
\* and a line mixing "=" and "-" or repeating another character is passed
\* over.
C16_SeparatorIffRun ==
    /\ cur.opener # -1 => IsRun(Trimmed(cur.opener))
    /\ \A i \in PassedOver : ~IsRun(Trimmed(i))
    /\ \A i \in PassedOver :
            Trimmed(i) \notin {Rep("=", 10), Rep("-", 10)}
    /\ cur.opener # -1
        => Trimmed(cur.opener) \notin
                {Rep("=", 9), Rep("-", 9), Rep("*", 10),
                 Rep("=", 5) \o Rep("-", 5)}
    /\ (ppc = "raised" /\ raised.msg = "Separator not found") => cur.opener = -1

\* a padded run of exactly 10 "-" was taken as the separator
C16_Witness ==
    /\ cur.opener = 1
    /\ Trimmed(1) = Rep("-", 10)
    /\ lines[2] # Rep("-", 10) \o <<"\n">>

\* the path written on the line with 0-based index i, a FILE line
PathOn(i) == Strip(SubSeq(Trimmed(i), 6, Len(Trimmed(i))))

\* the line with 0-based index i starts, trimmed, with "FILE "
LooksLikeMarker(i) == StartsWith(Trimmed(i), <<"F", "I", "L", "E", " ">>)

C21_PassedOverStep ==
    (ppc = "findsep" /\ idx < Len(lines) /\ ~IsRun(Trimmed(idx)))
        => /\ idx' = idx + 1
           /\ ppc' = "findsep"
           /\ path' = path
           /\ start_line' = start_line
           /\ cur' = cur
           /\ result' = result
           /\ raised' = raised
           /\ returned' = returned

C21_FirstMarkerOwnsBlock ==
    /\ ppc \in {"findsep", "collect", "endfile"}
            => path = PathOn(cur.marker) /\ start_line = cur.marker + 1
    /\ Len(result) = Len(spans)
    /\ \A k \in 1..Len(spans) :
            /\ LooksLikeMarker(spans[k].marker)
            /\ result[k][1] = PathOn(spans[k].marker)
            /\ \A i \in (spans[k].marker + 1)..(spans[k].opener - 1) :
                    ~IsRun(Trimmed(i))
            /\ IsRun(Trimmed(spans[k].opener))
            /\ result[k][2] = SubSeq(text, Offset(spans[k].opener + 1) + 1,
                                     Offset(spans[k].closer))
    /\ ppc = "raised" => raised.path = PathOn(cur.marker)

\* C21: while a separator is searched for, a line that is not one only moves
\* the cursor, a line starting with "FILE " included: the path, the marker,
\* the list and the error state stay as they are; so every emitted block
\* carries the path of the FILE line that opened it, no line between that
\* line and the opener is a separator, the opener is the first separator
\* after it, and the content is what follows the opener.
C21_InnerMarkerDiscarded == [][C21_PassedOverStep]_vars /\ []C21_FirstMarkerOwnsBlock

\* the block of FILE a was returned with the content after the separator, a line
\* FILE c between marker and separator opened nothing
C21_Witness ==
    /\ ppc = "returned"
    /\ result = <<<<<<"a">>, ContentC>>>>
    /\ spans[1].marker = 0 /\ spans[1].opener = 2
    /\ LooksLikeMarker(1)
    /\ PathOn(1) = <<"c">>

-----------------------------------------------------------------------------
(* Properties of the round trip.                                            *)

\* the second parse, of the blocks written out again, has ended
Reparsed == first.done /\ ppc \in {"returned", "raised"}

\* some line of the content has the trimmed text sep
OccursIn(sep, c) ==
    \E k \in 1..Len(SplitLines(c)) : Strip(SplitLines(c)[k]) = sep

\* no block was written out with a separator that is a line of its content
SeparatorsFresh ==
    \A k \in 1..Len(first.value) : ~OccursIn(first.seps[k], first.value[k][2])

\* C11 as stated: the blocks parse_files returned, written out again with any
\* separator line, parse to the same sequence of (path, content) pairs.
C11_AsClaimed == Reparsed => returned = Returned(first.value)

\* C11, amended: the blocks parse_files returned, written out again, parse to
\* the same sequence of (path, content) pairs exactly when no block is
\* written out with a separator whose text is a trimmed line of that block's
\* content; this is so when each block keeps the separator it had.
C11_RoundTripWithFreshSeparators ==
    Reparsed
        => /\ (returned = Returned(first.value)) <=> SeparatorsFresh
           /\ (\A k \in 1..Len(first.value) : first.seps[k] \notin SeparatorPool)
                => SeparatorsFresh

\* two blocks, one of them with blank and padded content lines, came back
\* unchanged from a separator other than the one they had
C11_Witness ==
    /\ Reparsed
    /\ Len(first.value) = 2
    /\ \E k \in 1..2 : first.value[k][2] = ContentC
    /\ first.seps = <<Rep("=", 12), Rep("=", 12)>>
    /\ returned = Returned(first.value)

-----------------------------------------------------------------------------
(* Properties of parse_files and write_files together.                      *)

\* the trimmed form of the line with 0-based index i does not start with
\* "FILE "
NotAMarker(i) == ~StartsWith(Trimmed(i), <<"F", "I", "L", "E", " ">>)

\* the line with 0-based index i belongs to an emitted block
InABlock(i) == \E k \in 1..Len(spans) : spans[k].marker <= i /\ i <= spans[k].last

C12_IgnoredStep ==
    (ppc = "scan" /\ idx < Len(lines) /\ NotAMarker(idx))
        => /\ idx' = idx + 1
           /\ ppc' = "scan"
           /\ result' = result
           /\ raised' = raised
           /\ returned' = returned

C12_NoMarkerNoBlocks ==
    (ppc # "idle" /\ \A i \in 0..(Len(lines) - 1) : NotAMarker(i))
        => /\ ppc \in {"scan", "returned"}
           /\ result = <<>>
           /\ raised = NoError
           /\ ppc = "returned" => returned = Returned(<<>>)

C12_OutsideBlocksIgnored ==
    /\ ppc = "raised" => cur.marker # -1
    /\ ppc = "returned"
        => /\ Len(result) = Len(spans)
           /\ \A i \in 0..(Len(lines) - 1) : ~InABlock(i) => NotAMarker(i)

C12_EmptyListWritesNothing ==
    (wpc # "idle" /\ blocks = <<>>)
        => /\ wpc \in {"validate", "done"}
           /\ stats = [created |-> 0, skipped |-> 0, errors |-> 0]
           /\ dirs = dirs0 /\ files = files0 /\ prompts = <<>>
           /\ wpc = "done" => report = [created |-> 0, skipped |-> 0, errors |-> 0]

\* C12: outside a block, a line whose trimmed form does not start with
\* "FILE " only moves the cursor: no block, no error, no return; a failure is
\* always inside a block; when parse_files returns, every line outside the
\* emitted blocks is such a line; an input without a marker line parses to
\* the empty list without error; and write_files on the empty list changes
\* no file or directory, asks nothing and returns 0, 0, 0.
C12_StrayLinesIgnored ==
    /\ [][C12_IgnoredStep]_vars
    /\ [](C12_NoMarkerNoBlocks /\ C12_OutsideBlocksIgnored
            /\ C12_EmptyListWritesNothing)

\* two blocks were returned from an input with a stray line before, between
\* and after them
C12_Witness ==
    /\ ppc = "returned"
    /\ Len(spans) = 2
    /\ spans[1].marker > 0 /\ NotAMarker(0)
    /\ spans[2].marker > spans[1].last + 1
    /\ spans[2].last < Len(lines) - 1

-----------------------------------------------------------------------------
(* Properties of main.                                                      *)

\* a KeyboardInterrupt reached main
Cancelled == why = "KeyboardInterrupt"

C18_StatusByOutcome ==
    /\ (mpc = "exit") <=> (status # NoStatus)
    /\ mpc = "exit"
        => /\ status \in {0, 1, 130}
           /\ (status = 130) <=> Cancelled
           /\ (wpc = "done" /\ ~Cancelled)
                => /\ why = "Summary"
                   /\ report.errors = 0 => status = 0
                   /\ report.errors > 0 => status = 1
           /\ (ppc = "raised" /\ ~Cancelled) => status = 1 /\ wpc = "idle"
           /\ (ppc = "returned" /\ returned.value = <<>> /\ ~Cancelled)
                => status = 0 /\ wpc = "idle"
           /\ status = 0
                => \/ wpc = "done" /\ report.errors = 0
                   \/ ppc = "returned" /\ returned.value = <<>>
           /\ status = 1
                => \/ wpc = "done" /\ report.errors > 0
                   \/ ppc = "raised"
                   \/ why \in {"FileNotFoundError", "Input is empty", "Exception"}

C18_InterruptedAnswerStep ==
    (mpc = "write" /\ wpc = "answered" /\ response.exc = "KeyboardInterrupt")
        => \/ status' = 130 /\ why' = "KeyboardInterrupt"
           \/ /\ status' = NoStatus
              /\ mpc' = "write"
              /\ stats' = [stats EXCEPT !.skipped = @ + 1]
              /\ wi' = wi + 1

\* C18: main has returned exactly when it has a status, one of 0, 1, 130;
\* the status is 130 exactly when a KeyboardInterrupt reached main; otherwise
\* after write_files returned it is 0 when errors is 0 and 1 when errors is
\* positive, it is 1 when parse_files raised, and 0 when parse_files found no
\* block; 0 is returned in no other case, and 1 otherwise only for an input
\* that is blank or cannot be read and a root that cannot be made, where
\* write_files is never called.  A KeyboardInterrupt inside input() only
\* skips the block: write_files goes on with the next one.
C18_ExitStatusContract == []C18_StatusByOutcome /\ [][C18_InterruptedAnswerStep]_vars

\* the run was cancelled after one block had been skipped and the next written
C18_Witness ==
    /\ mpc = "exit"
    /\ status = 130
    /\ wpc = "interrupted"
    /\ outcomes = <<"skipped", "created">>

=============================================================================
